---------------------------- MODULE Spec2Model ----------------------------
(***************************************************************************)
(* Telecommunications Routing Audit Tool: RoutingAuditEngine (src/main.py) *)
(*                                                                         *)
(* The engine's session state (node_status_map), the failover query        *)
(* (_fetch_with_redundancy, one step per endpoint attempt), the per-item   *)
(* audit pipeline of execute_audit and the statistics of _export_data.     *)
(* Python strings are TLA+ strings; a character is a string of length 1.   *)
(***************************************************************************)
EXTENDS Naturals, Sequences, FiniteSets, TLC

(***************************************************************************)
(* Bounds of the model.                                                    *)
(***************************************************************************)
\* Largest number of work items the execution loop iterates over in a run.
MaxItems == 2

(***************************************************************************)
(* Configuration set by RoutingAuditEngine.__init__.                       *)
(***************************************************************************)
_NODES == <<"10.25.100.50", "10.25.100.51", "10.25.110.50", "10.25.110.51">>

_HOME_NETWORK_ID == "888000"

\* The registry's keys and, in the same order, its values.
RegistryKeys == <<"1010", "1020", "2010", "2020", "3050", "4090">>

RegistryNames == <<"Alpha_Telecom_Global", "Beta_Mobile_Networks",
                   "Delta_MVNO_Services", "Epsilon_Fixed_Line",
                   "Zeta_Cloud_Voice", "Omega_Infrastructure">>

NodeSet == {_NODES[i] : i \in 1..Len(_NODES)}

HealthStates == {"PENDING", "HEALTHY", "TIMEOUT/UNREACHABLE"}

(***************************************************************************)
(* String primitives of the Python runtime used by the engine.             *)
(***************************************************************************)
CharAt(s, i) == SubSeq(s, i, i)

UpperLetters == "ABCDEFGHIJKLMNOPQRSTUVWXYZ"

LowerLetters == "abcdefghijklmnopqrstuvwxyz"

Whitespace == {" ", "\t", "\n", "\r"}

Digits == {"0", "1", "2", "3", "4", "5", "6", "7", "8", "9"}

\* The case maps of str.lower() and str.upper() on ASCII letters.
LowerOf == [c \in {CharAt(UpperLetters, i) : i \in 1..Len(UpperLetters)} |->
              CharAt(LowerLetters, CHOOSE i \in 1..Len(UpperLetters) : CharAt(UpperLetters, i) = c)]

UpperOf == [c \in {CharAt(LowerLetters, i) : i \in 1..Len(LowerLetters)} |->
              CharAt(UpperLetters, CHOOSE i \in 1..Len(LowerLetters) : CharAt(LowerLetters, i) = c)]

lower_char(c) == IF c \in DOMAIN LowerOf THEN LowerOf[c] ELSE c

upper_char(c) == IF c \in DOMAIN UpperOf THEN UpperOf[c] ELSE c

RECURSIVE str_lower_from(_, _)
\* The characters of s from position i on, in lower case.
str_lower_from(s, i) ==
    IF i > Len(s) THEN "" ELSE lower_char(CharAt(s, i)) \o str_lower_from(s, i + 1)

str_lower(s) == str_lower_from(s, 1)

RECURSIVE str_upper_from(_, _)
\* The characters of s from position i on, in upper case.
str_upper_from(s, i) ==
    IF i > Len(s) THEN "" ELSE upper_char(CharAt(s, i)) \o str_upper_from(s, i + 1)

str_upper(s) == str_upper_from(s, 1)

RECURSIVE SkipWhitespace(_, _)
\* The first position at or after j that holds no whitespace.
SkipWhitespace(s, j) ==
    IF j <= Len(s) /\ CharAt(s, j) \in Whitespace THEN SkipWhitespace(s, j + 1) ELSE j

RECURSIVE SkipWhitespaceBack(_, _)
\* The last position at or before j that holds no whitespace (0 if none).
SkipWhitespaceBack(s, j) ==
    IF j >= 1 /\ CharAt(s, j) \in Whitespace THEN SkipWhitespaceBack(s, j - 1) ELSE j

\* s.strip(): s without its leading and trailing whitespace.
str_strip(s) == SubSeq(s, SkipWhitespace(s, 1), SkipWhitespaceBack(s, Len(s)))

\* sub in s
str_contains(sub, s) ==
    \E i \in 1..(Len(s) + 1) :
        /\ i + Len(sub) - 1 <= Len(s)
        /\ SubSeq(s, i, i + Len(sub) - 1) = sub

(***************************************************************************)
(* _parse_routing_id: re.search(r'RoutingID:\s*(\d+)', body, IGNORECASE).  *)
(* The result is <<>> for None and <<digits>> for match.group(1).          *)
(***************************************************************************)
RoutingLabel == "routingid:"

RECURSIVE DigitRunEnd(_, _)
\* The first position at or after j that holds no digit.
DigitRunEnd(s, j) ==
    IF j <= Len(s) /\ CharAt(s, j) \in Digits THEN DigitRunEnd(s, j + 1) ELSE j

MatchesAt_CaseSensitive(s, i) ==
    /\ i + Len(RoutingLabel) - 1 <= Len(s)
    /\ \A k \in 1..Len(RoutingLabel) :
          CharAt(s, i + k - 1) = CharAt("RoutingID:", k)
    /\ LET j == SkipWhitespace(s, i + Len(RoutingLabel))
       IN  DigitRunEnd(s, j) > j

\* The pattern matches with its first character at position i; the label is
\* compared character by character ignoring case.
MatchesAt(s, i) ==
    /\ i + Len(RoutingLabel) - 1 <= Len(s)
    /\ \A k \in 1..Len(RoutingLabel) :
          lower_char(CharAt(s, i + k - 1)) = CharAt(RoutingLabel, k)
    /\ LET j == SkipWhitespace(s, i + Len(RoutingLabel))
       IN  DigitRunEnd(s, j) > j

_parse_routing_id(response_body) ==
    LET hits == {i \in 1..Len(response_body) : MatchesAt(response_body, i)}
    IN  IF hits = {} THEN <<>>
        ELSE LET i == CHOOSE h \in hits : \A k \in hits : h <= k
                 j == SkipWhitespace(response_body, i + Len(RoutingLabel))
             IN  <<SubSeq(response_body, j, DigitRunEnd(response_body, j) - 1)>>

(***************************************************************************)
(* _match_carrier                                                          *)
(***************************************************************************)
_match_carrier_UnknownWhenUnregistered(routing_id) ==
    IF Len(routing_id) = 0 \/ Len(routing_id) < 4
    THEN "UNKNOWN_PROVIDER"
    ELSE LET prefix == SubSeq(routing_id, 1, 4)
         IN  IF \E k \in 1..Len(RegistryKeys) : RegistryKeys[k] = prefix
             THEN RegistryNames[CHOOSE k \in 1..Len(RegistryKeys) : RegistryKeys[k] = prefix]
             ELSE "UNKNOWN_PROVIDER"

_match_carrier(routing_id) ==
    IF Len(routing_id) = 0 \/ Len(routing_id) < 4
    THEN "UNKNOWN_PROVIDER"
    ELSE LET prefix == SubSeq(routing_id, 1, 4)
         IN  IF \E k \in 1..Len(RegistryKeys) : RegistryKeys[k] = prefix
             THEN RegistryNames[CHOOSE k \in 1..Len(RegistryKeys) : RegistryKeys[k] = prefix]
             ELSE "Unregistered_Prefix_" \o prefix

(***************************************************************************)
(* The audit logic of execute_audit (lines 179-183).                       *)
(***************************************************************************)
audit_passed_InboundUnchecked(t_direction, rn) ==
    IF str_contains("inbound", t_direction)
    THEN TRUE
    ELSE IF /\ str_contains("outbound", t_direction)
            /\ rn # _HOME_NETWORK_ID
            /\ rn # "000000"
         THEN TRUE
         ELSE FALSE

audit_passed_NoSentinelCheck(t_direction, rn) ==
    IF str_contains("inbound", t_direction) /\ rn = _HOME_NETWORK_ID
    THEN TRUE
    ELSE IF /\ str_contains("outbound", t_direction)
            /\ rn # _HOME_NETWORK_ID
         THEN TRUE
         ELSE FALSE

audit_passed_HomeAlwaysPasses(t_direction, rn) ==
    IF rn = _HOME_NETWORK_ID
    THEN TRUE
    ELSE IF /\ str_contains("outbound", t_direction)
            /\ rn # "000000"
         THEN TRUE
         ELSE FALSE

audit_passed_OutboundHomeOnly(t_direction, rn) ==
    IF str_contains("inbound", t_direction)
    THEN rn = _HOME_NETWORK_ID
    ELSE IF str_contains("outbound", t_direction)
    THEN rn = _HOME_NETWORK_ID
    ELSE FALSE

audit_passed_OutboundUnchecked(t_direction, rn) ==
    IF str_contains("inbound", t_direction) /\ rn = _HOME_NETWORK_ID
    THEN TRUE
    ELSE IF str_contains("outbound", t_direction)
         THEN TRUE
         ELSE FALSE

audit_passed(t_direction, rn) ==
    IF str_contains("inbound", t_direction) /\ rn = _HOME_NETWORK_ID
    THEN TRUE
    ELSE IF /\ str_contains("outbound", t_direction)
            /\ rn # _HOME_NETWORK_ID
            /\ rn # "000000"
         THEN TRUE
         ELSE FALSE

(***************************************************************************)
(* The environment: what the input file holds and what an endpoint does    *)
(* when it is contacted.                                                   *)
(***************************************************************************)
\* Column 0 of an input line, before .strip().lower().
RawDirections == {"Inbound", " OUTBOUND", "Inbound/Outbound", "sideways"}

\* Segments that _validate_input_format accepts.
Msisdns == {"5551234567"}

\* Exceptions urlopen/read/decode raise: refused connection, elapsed
\* deadline, malformed transport response.
TransportFailures == {"URLError", "timeout", "UnicodeDecodeError"}

\* Decoded response bodies of transport-successful attempts.
Bodies == {"noise RoutingID:   888000 trailing",
           "routingid:777000\n",
           "no id here",
           "RoutingID: \n",
           ""}

Outcomes == [exc : TransportFailures] \cup [body : Bodies]

(***************************************************************************)
(* State.                                                                  *)
(***************************************************************************)
VARIABLES
    node_status_map,  \* self.node_status_map
    pc,               \* position in execute_audit
    work_queue,       \* the work items the execution loop has taken so far
    item,             \* (t_direction, msisdn) of the current iteration
    node_i,           \* index into _NODES of _fetch_with_redundancy's loop
    attempts,         \* the requests of the query in progress and what came back
    ret,              \* what _fetch_with_redundancy returned
    results,          \* execute_audit's results list
    report            \* what _export_data computed

vars == <<node_status_map, pc, work_queue, item, node_i, attempts, ret, results, report>>

NoItem == <<>>

NoReturn == <<>>

NoReport == <<>>

\* Line 54.
InitialStatus == [ip \in NodeSet |-> "PENDING"]

Init ==
    /\ node_status_map = InitialStatus
    /\ pc = "loop"
    /\ work_queue = <<>>
    /\ item = NoItem
    /\ node_i = 0
    /\ attempts = <<>>
    /\ ret = NoReturn
    /\ results = <<>>
    /\ report = NoReport

(***************************************************************************)
(* execute_audit, line 174: the loop takes the next work item and calls    *)
(* _fetch_with_redundancy.  The queue's content is input the loop never    *)
(* looks ahead at, so each item is drawn when the loop reaches it.         *)
(***************************************************************************)
NextItem_ResetsHealth ==
    /\ pc = "loop"
    /\ Len(work_queue) < MaxItems
    /\ \E raw \in RawDirections, msisdn \in Msisdns :
         LET traffic_dir == str_lower(str_strip(raw))
         IN  /\ work_queue' = Append(work_queue, <<traffic_dir, msisdn>>)
             /\ item' = <<traffic_dir, msisdn>>
    /\ node_i' = 1
    /\ attempts' = <<>>
    /\ ret' = NoReturn
    /\ pc' = "fetch"
    /\ node_status_map' = InitialStatus
    /\ UNCHANGED <<results, report>>

NextItem ==
    /\ pc = "loop"
    /\ Len(work_queue) < MaxItems
    /\ \E raw \in RawDirections, msisdn \in Msisdns :
         LET traffic_dir == str_lower(str_strip(raw))
         IN  /\ work_queue' = Append(work_queue, <<traffic_dir, msisdn>>)
             /\ item' = <<traffic_dir, msisdn>>
    /\ node_i' = 1
    /\ attempts' = <<>>
    /\ ret' = NoReturn
    /\ pc' = "fetch"
    /\ UNCHANGED <<node_status_map, results, report>>

(***************************************************************************)
(* _fetch_with_redundancy, lines 106-121: one iteration of the loop over   *)
(* _NODES, under each outcome the contacted endpoint can produce.          *)
(***************************************************************************)
\* What came back from the network, as an observer of the wire sees it.
ResponseClass(o) ==
    IF "exc" \in DOMAIN o THEN "exception"
    ELSE IF _parse_routing_id(str_strip(o.body)) = <<>> THEN "no_match"
    ELSE "match"

OnException_Propagates(node_ip) ==
    /\ pc' = "crashed"
    /\ UNCHANGED <<node_status_map, node_i, ret>>

\* Lines 118-121: except Exception.
OnException_Retries(node_ip) ==
    /\ node_status_map' = [node_status_map EXCEPT ![node_ip] = "TIMEOUT/UNREACHABLE"]
    /\ UNCHANGED <<node_i, pc, ret>>

OnException(node_ip) ==
    /\ node_status_map' = [node_status_map EXCEPT ![node_ip] = "TIMEOUT/UNREACHABLE"]
    /\ node_i' = node_i + 1
    /\ UNCHANGED <<pc, ret>>

OnMatch_NoHealthMark(node_ip, content, extracted_rn) ==
    /\ ret' = <<content, extracted_rn, node_ip>>
    /\ pc' = "audit"
    /\ UNCHANGED <<node_status_map, node_i>>

OnMatch_NoReturn(node_ip, content, extracted_rn) ==
    /\ node_status_map' = [node_status_map EXCEPT ![node_ip] = "HEALTHY"]
    /\ ret' = <<content, extracted_rn, node_ip>>
    /\ node_i' = node_i + 1
    /\ UNCHANGED pc

\* Lines 115-117: a routing identifier was extracted.
OnMatch_StickyUnreachable(node_ip, content, extracted_rn) ==
    /\ node_status_map' =
         IF node_status_map[node_ip] = "TIMEOUT/UNREACHABLE"
         THEN node_status_map
         ELSE [node_status_map EXCEPT ![node_ip] = "HEALTHY"]
    /\ ret' = <<content, extracted_rn, node_ip>>
    /\ pc' = "audit"
    /\ UNCHANGED node_i

OnMatch(node_ip, content, extracted_rn) ==
    /\ node_status_map' = [node_status_map EXCEPT ![node_ip] = "HEALTHY"]
    /\ ret' = <<content, extracted_rn, node_ip>>
    /\ pc' = "audit"
    /\ UNCHANGED node_i

OnNoMatch_MarksUnreachable(node_ip) ==
    /\ node_status_map' = [node_status_map EXCEPT ![node_ip] = "TIMEOUT/UNREACHABLE"]
    /\ node_i' = node_i + 1
    /\ UNCHANGED <<pc, ret>>

OnNoMatch_MarksHealthy(node_ip) ==
    /\ node_status_map' = [node_status_map EXCEPT ![node_ip] = "HEALTHY"]
    /\ node_i' = node_i + 1
    /\ UNCHANGED <<pc, ret>>

\* Line 115 is false: the with block ends and the loop goes on.
OnNoMatch(node_ip) ==
    /\ node_i' = node_i + 1
    /\ UNCHANGED <<node_status_map, pc, ret>>

TryNode ==
    /\ pc = "fetch"
    /\ node_i <= Len(_NODES)
    /\ \E o \in Outcomes :
         LET node_ip == _NODES[node_i]
         IN  /\ attempts' = Append(attempts, [node |-> node_ip, result |-> ResponseClass(o)])
             /\ IF "exc" \in DOMAIN o
                THEN OnException(node_ip)
                ELSE LET content == str_strip(o.body)
                         extracted_rn == _parse_routing_id(content)
                     IN  IF extracted_rn # <<>> /\ extracted_rn[1] # ""
                         THEN OnMatch(node_ip, content, extracted_rn[1])
                         ELSE OnNoMatch(node_ip)
    /\ UNCHANGED <<work_queue, item, results, report>>

ExhaustedReturn_LastNode == <<"CRITICAL_CONNECTION_FAILURE", "000000", _NODES[Len(_NODES)]>>

ExhaustedReturn_EmptyId == <<"CRITICAL_CONNECTION_FAILURE", "", "NONE">>

\* Line 123.
ExhaustedReturn == <<"CRITICAL_CONNECTION_FAILURE", "000000", "NONE">>

\* The loop over _NODES ended without a return.
FetchExhausted ==
    /\ pc = "fetch"
    /\ node_i > Len(_NODES)
    /\ ret' = ExhaustedReturn
    /\ pc' = "audit"
    /\ UNCHANGED <<node_status_map, work_queue, item, node_i, attempts, results, report>>

(***************************************************************************)
(* execute_audit, lines 176-193: carrier, audit logic, results.append.     *)
(***************************************************************************)
audit_record_UnknownOnExhaustion(t_direction, msisdn, rn, source_node) ==
    LET carrier == IF source_node = "NONE" THEN "UNKNOWN_PROVIDER" ELSE _match_carrier(rn)
    IN  [audit_status |-> IF audit_passed(t_direction, rn) THEN "PASSED" ELSE "FAILED",
         type |-> str_upper(t_direction),
         id |-> msisdn,
         routing_rn |-> rn,
         entity |-> carrier,
         source_node |-> source_node]

\* Lines 176-193: the record of one work item.
audit_record(t_direction, msisdn, rn, source_node) ==
    LET carrier == _match_carrier(rn)
    IN  [audit_status |-> IF audit_passed(t_direction, rn) THEN "PASSED" ELSE "FAILED",
         type |-> str_upper(t_direction),
         id |-> msisdn,
         routing_rn |-> rn,
         entity |-> carrier,
         source_node |-> source_node]

AuditItem_Prepends ==
    /\ pc = "audit"
    /\ results' = <<audit_record(item[1], item[2], ret[2], ret[3])>> \o results
    /\ pc' = "loop"
    /\ item' = NoItem
    /\ ret' = NoReturn
    /\ attempts' = <<>>
    /\ node_i' = 0
    /\ UNCHANGED <<node_status_map, work_queue, report>>

AuditItem ==
    /\ pc = "audit"
    /\ LET t_direction == item[1]
           msisdn == item[2]
           rn == ret[2]
           source_node == ret[3]
       IN  results' = Append(results, audit_record(t_direction, msisdn, rn, source_node))
    /\ pc' = "loop"
    /\ item' = NoItem
    /\ ret' = NoReturn
    /\ attempts' = <<>>
    /\ node_i' = 0
    /\ UNCHANGED <<node_status_map, work_queue, report>>

(***************************************************************************)
(* execute_audit, line 198, and _export_data, lines 211-217: the loop is   *)
(* over; the statistics divide by the number of records.                   *)
(***************************************************************************)
Entities(data_set) == {data_set[k].entity : k \in 1..Len(data_set)}

format_1f_Truncates(num, den) == (num * 10) \div den

\* f"{num/den:.1f}" as a number of tenths: the nearest tenth, a tie going to
\* the even one.
format_1f(num, den) ==
    LET q == (num * 10) \div den
        r == (num * 10) % den
    IN  IF 2 * r > den THEN q + 1
        ELSE IF 2 * r = den THEN q + (q % 2)
        ELSE q

ExportData ==
    /\ pc = "loop"
    /\ IF Len(results) = 0
       THEN \* ZeroDivisionError at line 217
            /\ pc' = "crashed"
            /\ UNCHANGED report
       ELSE /\ pc' = "done"
            /\ LET fails == {k \in 1..Len(results) : results[k].audit_status = "FAILED"}
               IN  report' =
                     [total |-> Len(results),
                      fails |-> Cardinality(fails),
                      success_rate |-> format_1f((Len(results) - Cardinality(fails)) * 100,
                                                 Len(results)),
                      stats |-> [e \in Entities(results) |->
                                   Cardinality({k \in 1..Len(results) : results[k].entity = e})],
                      node_health |-> node_status_map]
    /\ UNCHANGED <<node_status_map, work_queue, item, node_i, attempts, ret, results>>

Next ==
    \/ NextItem
    \/ TryNode
    \/ FetchExhausted
    \/ AuditItem
    \/ ExportData

Spec == Init /\ [][Next]_vars

\* The interpreter keeps running the program: a step that can be taken is taken.
FairSpec == Spec /\ WF_vars(Next)

(***************************************************************************)
(* _export_data as a function of the records it is given: the runs in      *)
(* which the first endpoint answered every query with an identifier, taken *)
(* at the end of the execution loop.                                       *)
(***************************************************************************)
\* Largest number of records handed to _export_data.
MaxRecords == 3

\* Routing identifiers the first endpoint answered with.
AnsweredIds == {"888000", "777000", "1010555", "12"}

InitStats ==
    \E n \in 0..MaxRecords :
      \E q \in [1..n -> RawDirections \X AnsweredIds \X Msisdns] :
        /\ work_queue = [k \in 1..n |-> <<str_lower(str_strip(q[k][1])), q[k][3]>>]
        /\ results = [k \in 1..n |->
                        audit_record(str_lower(str_strip(q[k][1])), q[k][3], q[k][2], _NODES[1])]
        /\ node_status_map =
             IF n = 0 THEN InitialStatus ELSE [InitialStatus EXCEPT ![_NODES[1]] = "HEALTHY"]
        /\ pc = "loop"
        /\ item = NoItem
        /\ node_i = 0
        /\ attempts = <<>>
        /\ ret = NoReturn
        /\ report = NoReport

NextStats == ExportData

SpecStats == InitStats /\ [][NextStats]_vars

(***************************************************************************)
(* _match_carrier called on its own.  item holds the argument (<<>> for    *)
(* None, <<s>> for the string s) and ret the value returned.               *)
(***************************************************************************)
\* Longest generated routing identifier.
MaxIdLen == 5

IdAlphabet == {"0", "1", "2", "9"}

RECURSIVE IdStrings(_)
IdStrings(n) ==
    IF n = 0 THEN {""}
    ELSE LET S == IdStrings(n - 1)
         IN  S \cup {s \o d : s \in S, d \in IdAlphabet}

RoutingIds == IdStrings(MaxIdLen) \cup {"3050123", "4090", "40901", "888000", "777000", "abcdef"}

InitCarrier ==
    /\ item \in {<<>>} \cup {<<s>> : s \in RoutingIds}
    /\ pc = "call"
    /\ ret = NoReturn
    /\ node_status_map = InitialStatus
    /\ work_queue = <<>>
    /\ node_i = 0
    /\ attempts = <<>>
    /\ results = <<>>
    /\ report = NoReport

CallMatchCarrier ==
    /\ pc = "call"
    /\ ret' = <<_match_carrier(IF item = <<>> THEN <<>> ELSE item[1])>>
    /\ pc' = "returned"
    /\ UNCHANGED <<node_status_map, work_queue, item, node_i, attempts, results, report>>

NextCarrier == CallMatchCarrier

SpecCarrier == InitCarrier /\ [][NextCarrier]_vars

(***************************************************************************)
(* _parse_routing_id called on its own.  item holds the response body and  *)
(* ret the value returned (<<>> for None, <<d>> for the digits d).         *)
(***************************************************************************)
\* Most whitespace characters between the label and the digits.
MaxPad == 2

RECURSIVE Pads(_)
Pads(n) ==
    IF n = 0 THEN {""}
    ELSE LET S == Pads(n - 1)
         IN  S \cup {s \o w : s \in S, w \in Whitespace}

BodyPrefixes == {"", "x ", "RoutingID: x ", "9"}

BodyLabels == {"RoutingID:", "routingid:", "ROUTINGID:", "RoutingID", "Routing ID:"}

BodyDigits == {"", "7", "888000"}

BodySuffixes == {"", "abc", " 12", "5 rOUTINGid:3"}

ResponseBodies ==
    {a \o l \o w \o d \o z : a \in BodyPrefixes, l \in BodyLabels, w \in Pads(MaxPad),
                              d \in BodyDigits, z \in BodySuffixes}

InitParse ==
    /\ item \in {<<s>> : s \in ResponseBodies}
    /\ pc = "call"
    /\ ret = NoReturn
    /\ node_status_map = InitialStatus
    /\ work_queue = <<>>
    /\ node_i = 0
    /\ attempts = <<>>
    /\ results = <<>>
    /\ report = NoReport

CallParseRoutingId ==
    /\ pc = "call"
    /\ ret' = <<_parse_routing_id(item[1])>>
    /\ pc' = "returned"
    /\ UNCHANGED <<node_status_map, work_queue, item, node_i, attempts, results, report>>

NextParse == CallParseRoutingId

SpecParse == InitParse /\ [][NextParse]_vars

(***************************************************************************)
(* Vocabulary of the properties.                                           *)
(***************************************************************************)
Returned == pc = "audit"

Sentinel == <<"CRITICAL_CONNECTION_FAILURE", "000000", "NONE">>

\* The steps that send a request: the log of the query grows by one entry.
Attempted == attempts' # attempts /\ Len(attempts') = Len(attempts) + 1

LastAttempt == attempts'[Len(attempts')]

AllDigits(s) == \A i \in 1..Len(s) : CharAt(s, i) \in Digits

(***************************************************************************)
(* C1: when a query returns, the requests it sent went to the endpoints in *)
(* the configured order; the serving endpoint is the first one whose       *)
(* response held a parsable routing identifier, the returned identifier is *)
(* the one parsed from the returned response, and that endpoint is         *)
(* HEALTHY; the "NONE" sentinel is returned exactly when no response held  *)
(* a parsable identifier, after every endpoint was asked.                  *)
(***************************************************************************)
C1_FirstParsableWins ==
    Returned =>
        /\ \A i \in 1..Len(attempts) : attempts[i].node = _NODES[i]
        /\ ret[3] # "NONE" =>
             /\ attempts # <<>>
             /\ attempts[Len(attempts)].result = "match"
             /\ attempts[Len(attempts)].node = ret[3]
             /\ \A i \in 1..(Len(attempts) - 1) : attempts[i].result # "match"
             /\ _parse_routing_id(ret[1]) = <<ret[2]>>
             /\ node_status_map[ret[3]] = "HEALTHY"
        /\ ret[3] = "NONE" <=>
             /\ Len(attempts) = Len(_NODES)
             /\ \A i \in 1..Len(attempts) : attempts[i].result # "match"

\* The third endpoint serves after a transport failure and an unparsable response.
C1_Witness ==
    /\ Returned
    /\ Len(attempts) = 3
    /\ attempts[1].result = "exception"
    /\ attempts[2].result = "no_match"
    /\ ret = <<"routingid:777000", "777000", _NODES[3]>>

(***************************************************************************)
(* C2: a query whose every request ended in a transport failure returns    *)
(* exactly ("CRITICAL_CONNECTION_FAILURE", "000000", "NONE"), after asking *)
(* every endpoint, and every endpoint is TIMEOUT/UNREACHABLE.              *)
(***************************************************************************)
C2_AllFailReturnsSentinel ==
    (Returned /\ \A i \in 1..Len(attempts) : attempts[i].result = "exception") =>
        /\ ret = Sentinel
        /\ Len(attempts) = Len(_NODES)
        /\ \A ip \in NodeSet : node_status_map[ip] = "TIMEOUT/UNREACHABLE"

\* A second query fails everywhere after the first endpoint served the first.
C2_Witness ==
    /\ Returned
    /\ \A i \in 1..Len(attempts) : attempts[i].result = "exception"
    /\ Len(results) = 1
    /\ results[1].source_node = _NODES[1]
    /\ ret[3] = "NONE"

(***************************************************************************)
(* C3: failover is lazy.  Within a query no request follows a response     *)
(* that held a parsable identifier (if the first endpoint answers with     *)
(* one, it is the only endpoint contacted), and a step changes the health  *)
(* of no endpoint other than the one it contacts, so the endpoints after   *)
(* the serving one keep the health they had.                               *)
(***************************************************************************)
C3_NoContactAfterMatch ==
    /\ \A i \in 1..(Len(attempts) - 1) : attempts[i].result # "match"
    /\ (attempts # <<>> /\ attempts[Len(attempts)].result = "match") =>
          /\ Returned
          /\ \A j \in 1..Len(_NODES) :
               j > Len(attempts) => \A i \in 1..Len(attempts) : attempts[i].node # _NODES[j]

C3_LaterHealthKept ==
    \A j \in 1..Len(_NODES) :
        node_status_map'[_NODES[j]] # node_status_map[_NODES[j]] =>
            /\ Attempted
            /\ j = Len(attempts')
            /\ LastAttempt.node = _NODES[j]

C3_LazyFailover == [] C3_NoContactAfterMatch /\ [][C3_LaterHealthKept]_vars

\* The second endpoint serves while the third, unreachable since the first
\* query, and the fourth, still pending, are not contacted.
C3_Witness ==
    /\ Returned
    /\ Len(attempts) = 2
    /\ attempts[2].result = "match"
    /\ node_status_map[_NODES[3]] = "TIMEOUT/UNREACHABLE"
    /\ node_status_map[_NODES[4]] = "PENDING"

(***************************************************************************)
(* C4: a request that ends in a transport failure marks the contacted      *)
(* endpoint, and no other, TIMEOUT/UNREACHABLE and the query goes on to    *)
(* the next endpoint; no step of a query leaves it by an error: the query  *)
(* either stands at an endpoint to try or at the end of the list, from     *)
(* where it returns, or it has returned a triple.                          *)
(***************************************************************************)
C4_FailureStep ==
    (Attempted /\ LastAttempt.result = "exception") =>
        /\ LastAttempt.node = _NODES[node_i]
        /\ node_status_map' =
             [node_status_map EXCEPT ![_NODES[node_i]] = "TIMEOUT/UNREACHABLE"]
        /\ pc' = "fetch"
        /\ node_i' = node_i + 1

C4_QueryStep ==
    pc = "fetch" =>
        \/ pc' = "fetch" /\ node_i' \in 1..(Len(_NODES) + 1) /\ ret' = NoReturn
        \/ pc' = "audit" /\ Len(ret') = 3

C4_FailuresAreAbsorbed == [][C4_FailureStep /\ C4_QueryStep]_vars

\* The second endpoint fails after the first, healthy from the query before,
\* answered without an identifier.
C4_Witness ==
    /\ pc = "fetch"
    /\ Len(attempts) = 2
    /\ attempts[1].result = "no_match"
    /\ attempts[2].result = "exception"
    /\ node_status_map[_NODES[1]] = "HEALTHY"
    /\ node_status_map[_NODES[2]] = "TIMEOUT/UNREACHABLE"

(***************************************************************************)
(* C5: a request answered by a body with no parsable identifier changes    *)
(* no endpoint's health and the query goes on to the next endpoint.        *)
(***************************************************************************)
C5_NoMatchStep ==
    (Attempted /\ LastAttempt.result = "no_match") =>
        /\ LastAttempt.node = _NODES[node_i]
        /\ node_status_map' = node_status_map
        /\ pc' = "fetch"
        /\ node_i' = node_i + 1

C5_UnparsableLeavesHealth == [][C5_NoMatchStep]_vars

\* Unparsable answers from a healthy, an unreachable and a pending endpoint.
C5_Witness ==
    /\ pc = "fetch"
    /\ Len(attempts) = 3
    /\ \A i \in 1..3 : attempts[i].result = "no_match"
    /\ node_status_map[_NODES[1]] = "TIMEOUT/UNREACHABLE"
    /\ node_status_map[_NODES[2]] = "HEALTHY"
    /\ node_status_map[_NODES[3]] = "PENDING"

(***************************************************************************)
(* C6: every endpoint is PENDING before any query; its health is always    *)
(* PENDING, HEALTHY or TIMEOUT/UNREACHABLE; it changes only in a step that *)
(* contacts that endpoint; and it never becomes PENDING again.             *)
(***************************************************************************)
C6_StartsPending == \A ip \in NodeSet : node_status_map[ip] = "PENDING"

C6_HealthType ==
    /\ DOMAIN node_status_map = NodeSet
    /\ \A ip \in NodeSet : node_status_map[ip] \in HealthStates

C6_HealthStep ==
    \A ip \in NodeSet :
        /\ node_status_map'[ip] # node_status_map[ip] =>
             /\ Attempted
             /\ LastAttempt.node = ip
             /\ LastAttempt.result \in {"exception", "match"}
             /\ node_status_map'[ip] # "PENDING"
        /\ node_status_map[ip] # "PENDING" => node_status_map'[ip] # "PENDING"

C6_HealthLifecycle == C6_StartsPending /\ [] C6_HealthType /\ [][C6_HealthStep]_vars

\* An endpoint that served the first record has become unreachable, another
\* that was unreachable has become healthy, a third is still pending.
C6_Witness ==
    /\ Len(results) = 2
    /\ results[1].source_node = _NODES[1]
    /\ results[2].source_node = _NODES[2]
    /\ node_status_map[_NODES[1]] = "TIMEOUT/UNREACHABLE"
    /\ node_status_map[_NODES[4]] = "PENDING"

(***************************************************************************)
(* The audit decision, read off the records: the k-th record's verdict     *)
(* against the direction token of the k-th work item.                      *)
(***************************************************************************)
Direction(k) == work_queue[k][1]

Passed(k) == results[k].audit_status = "PASSED"

HasInbound(k) == str_contains("inbound", Direction(k))

HasOutbound(k) == str_contains("outbound", Direction(k))

(***************************************************************************)
(* C7 as stated: for every direction token that contains "inbound",        *)
(* whatever else it contains, the verdict is Pass iff the routing          *)
(* identifier is the home network identifier.                              *)
(***************************************************************************)
C7_InboundRule_AsStated ==
    \A k \in 1..Len(results) :
        HasInbound(k) => (Passed(k) <=> results[k].routing_rn = _HOME_NETWORK_ID)

(***************************************************************************)
(* C7 amended: for every direction token that contains "inbound" and does  *)
(* not contain "outbound", the verdict is Pass iff the routing identifier  *)
(* is the home network identifier.                                         *)
(***************************************************************************)
C7_InboundRule ==
    \A k \in 1..Len(results) :
        (HasInbound(k) /\ ~HasOutbound(k)) =>
            (Passed(k) <=> results[k].routing_rn = _HOME_NETWORK_ID)

\* An inbound item passes on the home identifier, another fails on a foreign one.
C7_Witness ==
    /\ Len(results) = 2
    /\ Direction(1) = "inbound" /\ results[1].routing_rn = "888000" /\ Passed(1)
    /\ Direction(2) = "inbound" /\ results[2].routing_rn = "777000" /\ ~Passed(2)

(***************************************************************************)
(* C8 as stated: for every direction token that contains "outbound",       *)
(* whatever else it contains, the verdict is Pass iff the routing          *)
(* identifier differs from the home network identifier and from "000000".  *)
(***************************************************************************)
C8_OutboundRule_AsStated ==
    \A k \in 1..Len(results) :
        HasOutbound(k) =>
            (Passed(k) <=> /\ results[k].routing_rn # _HOME_NETWORK_ID
                           /\ results[k].routing_rn # "000000")

(***************************************************************************)
(* C8 amended: for every direction token that contains "outbound" and does *)
(* not contain "inbound", the verdict is Pass iff the routing identifier   *)
(* differs from the home network identifier and from "000000".             *)
(***************************************************************************)
C8_OutboundRule ==
    \A k \in 1..Len(results) :
        (HasOutbound(k) /\ ~HasInbound(k)) =>
            (Passed(k) <=> /\ results[k].routing_rn # _HOME_NETWORK_ID
                           /\ results[k].routing_rn # "000000")

\* An outbound item passes on a foreign identifier, another fails on the
\* no-route sentinel.
C8_Witness ==
    /\ Len(results) = 2
    /\ Direction(1) = "outbound" /\ results[1].routing_rn = "777000" /\ Passed(1)
    /\ Direction(2) = "outbound" /\ results[2].routing_rn = "000000" /\ ~Passed(2)

(***************************************************************************)
(* C9: a direction token that contains neither "inbound" nor "outbound"    *)
(* gets the verdict Fail for every routing identifier, the home network    *)
(* identifier included; every record's verdict is PASSED or FAILED.        *)
(***************************************************************************)
C9_DefaultsToFail ==
    \A k \in 1..Len(results) :
        /\ results[k].audit_status \in {"PASSED", "FAILED"}
        /\ (~HasInbound(k) /\ ~HasOutbound(k)) => results[k].audit_status = "FAILED"

\* A token that is neither fails on the home identifier and on a foreign one.
C9_Witness ==
    /\ Len(results) = 2
    /\ Direction(1) = "sideways" /\ results[1].routing_rn = "888000" /\ ~Passed(1)
    /\ Direction(2) = "sideways" /\ results[2].routing_rn = "777000" /\ ~Passed(2)

(***************************************************************************)
(* C10: every record's serving endpoint is a configured endpoint or the    *)
(* "NONE" sentinel, and the routing identifier a query returns to the      *)
(* carrier resolver, like the one stored in every record, is a non-empty   *)
(* string of digits (the sentinel "000000" when no endpoint served).       *)
(***************************************************************************)
RealOrSentinelId(rn, source_node) ==
    /\ Len(rn) > 0
    /\ AllDigits(rn)
    /\ source_node = "NONE" => rn = "000000"

C10_RecordInvariant ==
    /\ Returned =>
         /\ ret[3] \in NodeSet \cup {"NONE"}
         /\ RealOrSentinelId(ret[2], ret[3])
    /\ \A k \in 1..Len(results) :
         /\ results[k].source_node \in NodeSet \cup {"NONE"}
         /\ RealOrSentinelId(results[k].routing_rn, results[k].source_node)

\* One record of total exhaustion and one served by the last endpoint.
C10_Witness ==
    /\ Len(results) = 2
    /\ results[1].source_node = "NONE" /\ results[1].routing_rn = "000000"
    /\ results[2].source_node = _NODES[4] /\ results[2].routing_rn = "888000"

(***************************************************************************)
(* C11: whatever the endpoints do, the run makes exactly one record per    *)
(* work item, in input order: the k-th record holds the k-th item's number *)
(* and its direction token (in upper case, as line 188 stores it); while a *)
(* query is in progress every earlier item has its record; and the run     *)
(* ends by an error only when the queue was empty.                         *)
(***************************************************************************)
C11_OneRecordPerItem ==
    /\ pc \in {"loop", "done", "crashed"} => Len(results) = Len(work_queue)
    /\ pc \in {"fetch", "audit"} => Len(results) + 1 = Len(work_queue)
    /\ attempts # <<>> => pc \in {"fetch", "audit"}
    /\ \A k \in 1..Len(results) :
         /\ results[k].type = str_upper(work_queue[k][1])
         /\ results[k].id = work_queue[k][2]
    /\ pc = "crashed" => work_queue = <<>>

\* A run of two items ends with two records though the first query found no
\* endpoint at all.
C11_Witness ==
    /\ pc = "done"
    /\ Len(work_queue) = 2
    /\ work_queue[1][1] = "inbound" /\ results[1].type = "INBOUND"
    /\ results[1].source_node = "NONE"
    /\ work_queue[2][1] = "sideways" /\ results[2].type = "SIDEWAYS"
    /\ node_status_map[_NODES[1]] = "TIMEOUT/UNREACHABLE"

(***************************************************************************)
(* Run statistics, read off the report against the records.                *)
(***************************************************************************)
RECURSIVE SumOf(_, _)
SumOf(f, S) ==
    IF S = {} THEN 0
    ELSE LET x == CHOOSE y \in S : TRUE IN f[x] + SumOf(f, S \ {x})

FailCount == Cardinality({k \in 1..Len(results) : results[k].audit_status = "FAILED"})

PassCount == Cardinality({k \in 1..Len(results) : results[k].audit_status = "PASSED"})

(***************************************************************************)
(* C12 as stated: for N records of which F failed, the reported success    *)
(* rate equals (N-F)/N*100, the pass count is N-F and the counts of the    *)
(* carrier distribution sum to N.                                          *)
(***************************************************************************)
C12_Statistics_AsStated ==
    pc = "done" =>
        /\ report.success_rate * Len(results) = (Len(results) - FailCount) * 100 * 10
        /\ PassCount = Len(results) - FailCount
        /\ SumOf(report.stats, DOMAIN report.stats) = Len(results)

(***************************************************************************)
(* C12 amended: for N >= 1 records of which F failed, the reported success *)
(* rate is (N-F)/N*100 rounded to one decimal place (at most half a tenth  *)
(* away from it), the reported totals are N and F, the pass count is N-F   *)
(* and the counts of the carrier distribution sum to N.                    *)
(***************************************************************************)
C12_Statistics ==
    pc = "done" =>
        LET N == Len(results)
            F == FailCount
            off == IF report.success_rate * N >= (N - F) * 1000
                   THEN report.success_rate * N - (N - F) * 1000
                   ELSE (N - F) * 1000 - report.success_rate * N
        IN  /\ N >= 1
            /\ report.total = N
            /\ report.fails = F
            /\ 2 * off <= N
            /\ PassCount = N - F
            /\ SumOf(report.stats, DOMAIN report.stats) = N
            /\ \A e \in DOMAIN report.stats : report.stats[e] >= 1

\* Three records, one failed, two carriers: the report says 66.7.
C12_Witness ==
    /\ pc = "done"
    /\ report.total = 3
    /\ report.fails = 1
    /\ report.success_rate = 667
    /\ Cardinality(DOMAIN report.stats) = 2

(***************************************************************************)
(* C13: the carrier resolved for a routing identifier is UNKNOWN_PROVIDER  *)
(* when the identifier is absent, empty or shorter than 4 characters;      *)
(* otherwise the registered name when its first 4 characters are a         *)
(* registry key, and Unregistered_Prefix_ followed by those 4 characters   *)
(* when they are not.                                                      *)
(***************************************************************************)
C13_RegisteredName(prefix) ==
    CASE prefix = "1010" -> <<"Alpha_Telecom_Global">>
      [] prefix = "1020" -> <<"Beta_Mobile_Networks">>
      [] prefix = "2010" -> <<"Delta_MVNO_Services">>
      [] prefix = "2020" -> <<"Epsilon_Fixed_Line">>
      [] prefix = "3050" -> <<"Zeta_Cloud_Voice">>
      [] prefix = "4090" -> <<"Omega_Infrastructure">>
      [] OTHER -> <<>>

C13_CarrierResolution ==
    pc = "returned" =>
        IF item = <<>> THEN ret[1] = "UNKNOWN_PROVIDER"
        ELSE LET routing_id == item[1]
                 prefix == SubSeq(routing_id, 1, 4)
             IN  /\ Len(routing_id) < 4 => ret[1] = "UNKNOWN_PROVIDER"
                 /\ Len(routing_id) >= 4 /\ C13_RegisteredName(prefix) # <<>>
                       => ret[1] = C13_RegisteredName(prefix)[1]
                 /\ Len(routing_id) >= 4 /\ C13_RegisteredName(prefix) = <<>>
                       => ret[1] = "Unregistered_Prefix_" \o prefix

\* The short identifier "12" has been resolved to UNKNOWN_PROVIDER.
C13_Witness ==
    /\ pc = "returned"
    /\ item = <<"12">>
    /\ ret = <<"UNKNOWN_PROVIDER">>

(***************************************************************************)
(* C14: an inbound item answered with 888000 followed by an outbound item  *)
(* answered with 777000 by the same endpoint gives two PASSED records      *)
(* served by that endpoint, which is HEALTHY at the end.  More generally,  *)
(* a query whose first attempt is answered with an identifier is served    *)
(* by the first endpoint, and when every record was served by the first    *)
(* endpoint it is HEALTHY after the run.                                   *)
(***************************************************************************)
C14_TwoItemRun ==
    (/\ pc = "done"
     /\ Len(results) = 2
     /\ Direction(1) = "inbound" /\ results[1].routing_rn = "888000"
     /\ Direction(2) = "outbound" /\ results[2].routing_rn = "777000"
     /\ results[1].source_node \in NodeSet
     /\ results[2].source_node = results[1].source_node)
    => /\ results[1].audit_status = "PASSED"
       /\ results[2].audit_status = "PASSED"
       /\ node_status_map[results[1].source_node] = "HEALTHY"
       /\ report.node_health[results[1].source_node] = "HEALTHY"
       /\ report.total = 2 /\ report.fails = 0

C14_FirstEndpointServes ==
    /\ (pc = "audit" /\ attempts[1].result = "match")
          => /\ ret[3] = _NODES[1]
             /\ Len(attempts) = 1
             /\ node_status_map[_NODES[1]] = "HEALTHY"
    /\ (/\ pc \in {"loop", "done"}
        /\ results # <<>>
        /\ \A k \in 1..Len(results) : results[k].source_node = _NODES[1])
          => node_status_map[_NODES[1]] = "HEALTHY"
    /\ pc = "done" => report.node_health = node_status_map

\* The record appended for a query answered at once is served by the first endpoint.
C14_RecordStep ==
    (pc = "audit" /\ pc' = "loop" /\ attempts[1].result = "match")
      => /\ Len(results') = Len(results) + 1
         /\ results'[Len(results')].source_node = _NODES[1]
         /\ results'[Len(results')].routing_rn = _parse_routing_id(ret[1])[1]

C14_EndToEnd == [](C14_TwoItemRun /\ C14_FirstEndpointServes) /\ [][C14_RecordStep]_vars

C14_Witness ==
    /\ pc = "done"
    /\ Len(results) = 2
    /\ results[1].type = "INBOUND" /\ results[1].routing_rn = "888000"
    /\ results[2].type = "OUTBOUND" /\ results[2].routing_rn = "777000"
    /\ results[1].source_node = _NODES[1] /\ results[2].source_node = _NODES[1]
    /\ results[1].audit_status = "PASSED" /\ results[2].audit_status = "PASSED"
    /\ report.node_health = [InitialStatus EXCEPT ![_NODES[1]] = "HEALTHY"]

(***************************************************************************)
(* C15: the parser returns the run of decimal digits that follows the      *)
(* leftmost occurrence of the label "RoutingID:" (compared ignoring case)  *)
(* followed by optional whitespace and at least one digit, wherever it     *)
(* stands in the body; it returns None when there is no such occurrence;   *)
(* a returned identifier is a non-empty digit string.                      *)
(***************************************************************************)
\* The positions at which the label stands, whatever its case.
C15_LabelAt(s) ==
    {i \in 1..Len(s) : i + 9 <= Len(s) /\ str_lower(SubSeq(s, i, i + 9)) = "routingid:"}

\* Whitespace fills i+10..j-1 and j..e is a maximal run of digits.
C15_DigitsAfter(s, i, j, e) ==
    /\ \A k \in (i + 10)..(j - 1) : SubSeq(s, k, k) \in Whitespace
    /\ \A k \in j..e : SubSeq(s, k, k) \in Digits
    /\ e = Len(s) \/ SubSeq(s, e + 1, e + 1) \notin Digits

C15_Occurrences(s) ==
    UNION {{m \in {i} \X ((i + 10)..Len(s)) \X ((i + 10)..Len(s)) :
               m[2] <= m[3] /\ C15_DigitsAfter(s, i, m[2], m[3])} : i \in C15_LabelAt(s)}

C15_Parsing ==
    pc = "returned" =>
        LET body == item[1]
            occ == C15_Occurrences(body)
        IN  /\ occ = {} <=> ret[1] = <<>>
            /\ occ # {} =>
                 \E m \in occ :
                    /\ \A n \in occ : m[1] <= n[1]
                    /\ ret[1] = <<SubSeq(body, m[2], m[3])>>
            /\ ret[1] # <<>> => Len(ret[1][1]) >= 1 /\ AllDigits(ret[1][1])

\* Upper-case label, two whitespace characters, digits taken up to the letters.
C15_Witness ==
    /\ pc = "returned"
    /\ item = <<"x ROUTINGID: \t888000abc">>
    /\ ret = << <<"888000">> >>

(***************************************************************************)
(* C16: within one query the endpoints are attempted in the configured     *)
(* order, each at most once, so a query makes at most Len(_NODES) attempts *)
(* and every attempt is against an endpoint not attempted before; every    *)
(* query returns, and every run reaches the export step.                   *)
(***************************************************************************)
C16_SinglePass ==
    /\ Len(attempts) <= Len(_NODES)
    /\ \A a \in 1..Len(attempts) : attempts[a].node = _NODES[a]
    /\ \A a, b \in 1..Len(attempts) : a # b => attempts[a].node # attempts[b].node
    /\ pc = "fetch" => node_i = Len(attempts) + 1

\* An attempt that fails is followed, if at all, by an attempt against the next endpoint.
C16_AttemptStep ==
    attempts' # attempts /\ attempts' # <<>> =>
        /\ Len(attempts') = Len(attempts) + 1
        /\ \A a \in 1..Len(attempts) : attempts'[a] = attempts[a] /\ attempts[a].result # "match"
        /\ \A a \in 1..Len(attempts) : attempts'[Len(attempts')].node # attempts[a].node

C16_QueryReturns == (pc = "fetch") ~> (pc = "audit")

C16_ReachesExport == <>(pc \in {"done", "crashed"})

C16_SinglePassAndTermination ==
    /\ []C16_SinglePass
    /\ [][C16_AttemptStep]_vars
    /\ C16_QueryReturns
    /\ C16_ReachesExport

\* The second query of a run has tried every endpoint once, the last one answering.
C16_Witness ==
    /\ pc = "audit"
    /\ Len(results) = 1
    /\ Len(attempts) = Len(_NODES)
    /\ \A a \in 1..(Len(_NODES) - 1) : attempts[a].result # "match"
    /\ attempts[2].result = "no_match"
    /\ attempts[Len(_NODES)].result = "match"
    /\ ret[3] = _NODES[Len(_NODES)]

(***************************************************************************)
(* C17: a record whose serving endpoint is the sentinel "NONE" has the     *)
(* routing identifier "000000" and the verdict FAILED whatever its         *)
(* direction token, and the step that appends it goes back to the loop     *)
(* over the work items.                                                    *)
(***************************************************************************)
C17_ExhaustionRecords ==
    \A k \in 1..Len(results) :
        results[k].source_node = "NONE"
          => /\ results[k].routing_rn = "000000"
             /\ results[k].audit_status = "FAILED"

C17_ExhaustionStep ==
    (pc = "audit" /\ ret[3] = "NONE" /\ pc' # pc)
      => /\ pc' = "loop"
         /\ Len(results') = Len(results) + 1
         /\ results'[Len(results')].source_node = "NONE"
         /\ results'[Len(results')].audit_status = "FAILED"
         /\ node_status_map' = node_status_map

C17_ExhaustionFails == []C17_ExhaustionRecords /\ [][C17_ExhaustionStep]_vars

\* An outbound item was not served by any endpoint; the next item was served.
C17_Witness ==
    /\ Len(results) = 2
    /\ results[1].type = "OUTBOUND"
    /\ results[1].source_node = "NONE"
    /\ results[1].audit_status = "FAILED"
    /\ results[2].source_node = _NODES[2]
    /\ results[2].audit_status = "PASSED"

(***************************************************************************)
(* C18: health is last-write-wins.  Before any attempt every endpoint is   *)
(* PENDING; an attempt that ends in a transport failure leaves its         *)
(* endpoint TIMEOUT/UNREACHABLE and one that ends in a parsed identifier   *)
(* leaves it HEALTHY, whatever the health was before; an attempt with an   *)
(* unparsable response, and every step that is no attempt, leaves every    *)
(* health as it was; no attempt touches the health of another endpoint.    *)
(* So the health of an endpoint is the outcome of the latest attempt       *)
(* against it that failed in transport or parsed.                          *)
(***************************************************************************)
C18_WriteOf(result, before) ==
    CASE result = "exception" -> "TIMEOUT/UNREACHABLE"
      [] result = "match" -> "HEALTHY"
      [] OTHER -> before

C18_HealthStep ==
    \A ip \in NodeSet :
        node_status_map'[ip] =
            IF Attempted /\ LastAttempt.node = ip
            THEN C18_WriteOf(LastAttempt.result, node_status_map[ip])
            ELSE node_status_map[ip]

\* Within the query in progress the log is the history: an endpoint is attempted once.
C18_HealthOfQuery ==
    \A a \in 1..Len(attempts) :
        node_status_map[attempts[a].node] =
            C18_WriteOf(attempts[a].result, node_status_map[attempts[a].node])

C18_LastWriteWins ==
    /\ \A ip \in NodeSet : node_status_map[ip] = "PENDING"
    /\ []C18_HealthOfQuery
    /\ [][C18_HealthStep]_vars

\* The third endpoint served the first record and failed in the second query, so it
\* went from HEALTHY to TIMEOUT/UNREACHABLE; the second endpoint keeps the health of
\* the first query although it has just sent an unparsable response.
C18_Witness ==
    /\ pc = "audit"
    /\ Len(results) = 1
    /\ results[1].source_node = _NODES[3]
    /\ attempts = <<[node |-> _NODES[1], result |-> "exception"],
                    [node |-> _NODES[2], result |-> "no_match"],
                    [node |-> _NODES[3], result |-> "exception"],
                    [node |-> _NODES[4], result |-> "match"]>>
    /\ node_status_map = [ip \in NodeSet |->
                            IF ip = _NODES[2] THEN "TIMEOUT/UNREACHABLE"
                            ELSE IF ip = _NODES[4] THEN "HEALTHY"
                            ELSE "TIMEOUT/UNREACHABLE"]

(***************************************************************************)
(* C19: an endpoint is HEALTHY only if it is the serving endpoint of a     *)
(* record, or of the query that has just returned and whose record is      *)
(* about to be appended; an endpoint contacted in the query in progress    *)
(* that is still PENDING has sent an unparsable response.                  *)
(***************************************************************************)
C19_Served(ip) ==
    \/ \E k \in 1..Len(results) : results[k].source_node = ip
    \/ pc = "audit" /\ ret[3] = ip

C19_HealthyOnlyIfServed ==
    /\ \A ip \in NodeSet : node_status_map[ip] = "HEALTHY" => C19_Served(ip)
    /\ \A a \in 1..Len(attempts) :
          node_status_map[attempts[a].node] = "PENDING" => attempts[a].result = "no_match"
    /\ pc = "done" => \A ip \in NodeSet : report.node_health[ip] = "HEALTHY" => C19_Served(ip)

\* The first endpoint has answered both queries with unparsable responses and is
\* still PENDING; the second served the first record.
C19_Witness ==
    /\ pc = "fetch"
    /\ Len(results) = 1
    /\ results[1].source_node = _NODES[2]
    /\ attempts = <<[node |-> _NODES[1], result |-> "no_match"]>>
    /\ node_status_map = [InitialStatus EXCEPT ![_NODES[2]] = "HEALTHY"]

(***************************************************************************)
(* C20: in every record the carrier is the carrier resolver applied to the *)
(* record's routing identifier and the verdict is the decision policy      *)
(* applied to the direction of its work item and that identifier; a record *)
(* with the routing identifier "000000" carries the carrier                *)
(* "Unregistered_Prefix_0000".                                             *)
(***************************************************************************)
C20_RecordConsistency ==
    \A k \in 1..Len(results) :
        /\ results[k].entity = _match_carrier(results[k].routing_rn)
        /\ results[k].audit_status =
             IF audit_passed(Direction(k), results[k].routing_rn) THEN "PASSED" ELSE "FAILED"
        /\ results[k].routing_rn = "000000" =>
             /\ results[k].entity = "Unregistered_Prefix_0000"
             /\ results[k].entity # "UNKNOWN_PROVIDER"
        /\ results[k].source_node = "NONE" => results[k].entity = "Unregistered_Prefix_0000"

\* A total-exhaustion record after a record served with the home identifier.
C20_Witness ==
    /\ Len(results) = 2
    /\ results[1].routing_rn = "888000"
    /\ results[1].entity = "Unregistered_Prefix_8880"
    /\ results[1].audit_status = "PASSED"
    /\ results[2].routing_rn = "000000"
    /\ results[2].source_node = "NONE"
    /\ results[2].entity = "Unregistered_Prefix_0000"
    /\ results[2].audit_status = "FAILED"

=============================================================================
